---- MODULE Spec2Model ----
(***************************************************************************)
(* A model of siyul-park/id-mapper:                                        *)
(*   - BoundingBoxImageGenerator.generate (src/src/data/gernerator.py),    *)
(*     the resumable crop-and-save scan over a detection dataset, as a     *)
(*     state machine over the target directory tree;                       *)
(*   - Trainer.__train and Trainer.__evaluate                              *)
(*     (src/id_mapper/train/train_comparator.py), the epoch loop with its  *)
(*     periodic log line and the validation pass.                          *)
(* Spec is the generator, TrainSpec the trainer.                           *)
(***************************************************************************)
EXTENDS Integers, Sequences, FiniteSets, TLC

\* ------------------------------------------------------------- bounds
MaxImages == 3
MaxTotal == 4
MaxRuns == 3
MaxDeletes == 2
MaxDataSize == 250
MaxVal == 2
MaxLoss == 1
MaxCalls == 2

\* line 88: log_interval = int(data_size / 100)
LogDivisor == 100

\* ------------------------------------------------------------- state
VARIABLES
    \* the generator object and the filesystem under self.__path
    dataset,            \* boxes per image, in the dataset's iteration order
    format,             \* self.__format
    pathKind,           \* self.__path is "absent", a "file" or a "dir"
    dirs,               \* the instance directories under self.__path (indices)
    files,              \* dir index -> the one file name/content saved in it
    \* one call of generate
    pc,                 \* "idle" | "image" | "box" | "mkdir" | "save" | "done" | "error"
    err,                \* the exception that ended the call, or "none"
    force,
    existed_data_size,
    current_data_index,
    img,                \* images taken from the dataset iterator so far
    box,                \* boxes of the current image taken so far
    \* history of the calls (not program state)
    pathKind0, dirs0, files0,   \* the filesystem when the current call started
    produced,           \* indices whose directory this call created
    skipped,            \* indices this call skipped
    orphans,            \* directories whose creating call faulted before the save
    lastRun,            \* "none" | "clean" (force=False, completed, untouched since) | "other"
    runs, deletes

gvars == <<dataset, format, pathKind, dirs, files, pc, err, force,
           existed_data_size, current_data_index, img, box,
           pathKind0, dirs0, files0, produced, skipped, orphans, lastRun,
           runs, deletes>>

VARIABLES
    \* the Trainer object after construction
    data_size,          \* len(self.__train_data_loader)
    val_size,           \* len(self.__val_data_loader)
    params,             \* the model parameters, as the number of updates applied to them
    grads,              \* the parameters' .grad: "none" | "zero" | "set"
    mode,               \* "train" | "eval" (model.training)
    grad_enabled,       \* torch's gradient tracking switch
    train_shuffles,     \* shuffle() calls on the training loader
    val_shuffles,       \* shuffle() calls on the validation loader
    \* one call of __train or __evaluate
    tpc,                \* "idle" | "train" | "evaluate" | "done" | "error"
    terr,               \* the exception that ended the call, or "none"
    total_loss,
    start_time,
    now,                \* the clock (time()), in batches since the call started
    log_interval,
    i,                  \* batches taken from the loader so far (the next index)
    ret,                \* the returned value: <<>> (None) or <<numerator, denominator>>
    \* history of the call (not program state)
    emitted,            \* the log line the last batch emitted: <<line>>, or <<>> if none
    logged,             \* batch indices at which a log line was emitted
    window,             \* batches accumulated into total_loss since its last reset
    seen,               \* the per-batch losses of an __evaluate call, in order
    op,                 \* the method called last: "none" | "train" | "evaluate"
    params0, grads0,    \* parameters and gradients when the call started
    steps,              \* zero_grad / backward / optimizer.step calls of the call
    fwd_tracked,        \* forward passes of the call run with gradient tracking on
    calls

tvars == <<data_size, val_size, params, grads, mode, grad_enabled,
           train_shuffles, val_shuffles, tpc, terr, total_loss, start_time,
           now, log_interval, i, ret, emitted, logged, window, seen,
           params0, grads0, steps, fwd_tracked, op, calls>>

vars == <<gvars, tvars>>

\* ------------------------------------------------------------ helpers
RECURSIVE SumSeq(_)
SumSeq(s) == IF s = <<>> THEN 0 ELSE Head(s) + SumSeq(Tail(s))

Datasets ==
    { s \in UNION { [1..n -> 0..MaxTotal] : n \in 0..MaxImages } : SumSeq(s) <= MaxTotal }

Formats == {"jpg"}

\* get_data_size(self.__path): the number of instance entries under the path
get_data_size(ds) == Cardinality(ds)

\* a slip: the comparison made strict
SkipBoxStrict(idx, existed) == idx < existed

\* line 38: if current_data_index <= existed_data_size: continue
SkipBox(idx, existed) == idx <= existed

\* a slip: the file named by the box's position in its image, f'{k}.{format}'
CropFileByBox(image, k, fmt) == [name |-> <<k - 1, fmt>>, crop |-> <<image, k>>]

\* lines 44-45: image.crop(box) saved as f'0.{self.__format}': <<stem, extension>>
CropFile(image, k, fmt) == [name |-> <<0, fmt>>, crop |-> <<image, k>>]

\* ------------------------------------------------------------ generator
GenInit ==
    /\ dataset \in Datasets
    /\ format \in Formats
    /\ pathKind \in {"absent", "file", "dir"}
    /\ dirs = {}
    /\ files = <<>>
    /\ pc = "idle"
    /\ err = "none"
    /\ force = FALSE
    /\ existed_data_size = 0
    /\ current_data_index = 0
    /\ img = 0
    /\ box = 0
    /\ pathKind0 = pathKind
    /\ dirs0 = {}
    /\ files0 = <<>>
    /\ produced = {}
    /\ skipped = {}
    /\ orphans = {}
    /\ lastRun = "none"
    /\ runs = 0
    /\ deletes = 0

\* lines 23-30: generate(force) up to the loop
Generate(f) ==
    /\ pc = "idle"
    /\ runs < MaxRuns
    /\ runs' = runs + 1
    /\ force' = f
    /\ pathKind0' = pathKind
    /\ dirs0' = dirs
    /\ files0' = files
    /\ produced' = {}
    /\ skipped' = {}
    /\ current_data_index' = 0
    /\ img' = 0
    /\ box' = 0
    /\ IF pathKind # "absent" /\ f
       THEN IF pathKind = "dir"
            THEN \* os.remove of a directory raises (IsADirectoryError / PermissionError)
                 /\ pc' = "error"
                 /\ err' = "OSError"
                 /\ UNCHANGED <<pathKind, dirs, files, existed_data_size>>
            ELSE \* a plain file is removed, then mkdir creates the directory
                 /\ pathKind' = "dir"
                 /\ dirs' = {}
                 /\ files' = <<>>
                 /\ existed_data_size' = get_data_size({})
                 /\ pc' = "image"
                 /\ err' = "none"
       ELSE IF pathKind = "file"
            THEN \* mkdir(parents=True, exist_ok=True) on a non-directory raises
                 /\ pc' = "error"
                 /\ err' = "FileExistsError"
                 /\ UNCHANGED <<pathKind, dirs, files, existed_data_size>>
            ELSE /\ pathKind' = "dir"
                 /\ existed_data_size' = get_data_size(dirs)
                 /\ pc' = "image"
                 /\ err' = "none"
                 /\ UNCHANGED <<dirs, files>>
    /\ UNCHANGED <<dataset, format, orphans, lastRun, deletes>>
    /\ UNCHANGED tvars

\* line 33-34: the dataset iterator yields the next image, or is exhausted
NextImage ==
    /\ pc = "image"
    /\ IF img < Len(dataset)
       THEN /\ img' = img + 1
            /\ box' = 0
            /\ pc' = "box"
       ELSE /\ pc' = "done"
            /\ UNCHANGED <<img, box>>
    /\ UNCHANGED <<dataset, format, pathKind, dirs, files, err, force,
                   existed_data_size, current_data_index,
                   pathKind0, dirs0, files0, produced, skipped, orphans,
                   lastRun, runs, deletes>>
    /\ UNCHANGED tvars

\* lines 35-39: the next box of the current image: count it, skip or produce
NextBox ==
    /\ pc = "box"
    /\ IF box < dataset[img]
       THEN /\ box' = box + 1
            /\ current_data_index' = current_data_index + 1
            /\ IF SkipBox(current_data_index + 1, existed_data_size)
               THEN /\ skipped' = skipped \cup {current_data_index}
                    /\ pc' = "box"
               ELSE /\ pc' = "mkdir"
                    /\ UNCHANGED skipped
       ELSE /\ pc' = "image"
            /\ UNCHANGED <<box, current_data_index, skipped>>
    /\ UNCHANGED <<dataset, format, pathKind, dirs, files, err, force,
                   existed_data_size, img,
                   pathKind0, dirs0, files0, produced, orphans,
                   lastRun, runs, deletes>>
    /\ UNCHANGED tvars

\* a slip: mkdir(parents=True, exist_ok=True), which accepts an existing directory
MkDirExistOk ==
    /\ pc = "mkdir"
    /\ dirs' = dirs \cup {current_data_index - 1}
    /\ produced' = produced \cup {current_data_index - 1}
    /\ pc' = "save"
    /\ UNCHANGED err
    /\ UNCHANGED <<dataset, format, pathKind, files, force,
                   existed_data_size, current_data_index, img, box,
                   pathKind0, dirs0, files0, skipped, orphans,
                   lastRun, runs, deletes>>
    /\ UNCHANGED tvars

\* a slip: the directory named str(current_data_index), one-based
MkDirOneBased ==
    /\ pc = "mkdir"
    /\ IF current_data_index \in dirs
       THEN /\ pc' = "error"
            /\ err' = "FileExistsError"
            /\ UNCHANGED <<dirs, produced>>
       ELSE /\ dirs' = dirs \cup {current_data_index}
            /\ produced' = produced \cup {current_data_index}
            /\ pc' = "save"
            /\ UNCHANGED err
    /\ UNCHANGED <<dataset, format, pathKind, files, force,
                   existed_data_size, current_data_index, img, box,
                   pathKind0, dirs0, files0, skipped, orphans,
                   lastRun, runs, deletes>>
    /\ UNCHANGED tvars

\* lines 41-42: image_dir.mkdir(parents=True), which raises if the directory exists
MkDir ==
    /\ pc = "mkdir"
    /\ IF (current_data_index - 1) \in dirs
       THEN /\ pc' = "error"
            /\ err' = "FileExistsError"
            /\ UNCHANGED <<dirs, produced>>
       ELSE /\ dirs' = dirs \cup {current_data_index - 1}
            /\ produced' = produced \cup {current_data_index - 1}
            /\ pc' = "save"
            /\ UNCHANGED err
    /\ UNCHANGED <<dataset, format, pathKind, files, force,
                   existed_data_size, current_data_index, img, box,
                   pathKind0, dirs0, files0, skipped, orphans,
                   lastRun, runs, deletes>>
    /\ UNCHANGED tvars

\* lines 44-45: crop the image to the box and save it into the new directory
Save ==
    /\ pc = "save"
    /\ files' = [d \in (DOMAIN files) \cup {current_data_index - 1} |->
                    IF d = current_data_index - 1
                    THEN CropFile(img, box, format)
                    ELSE files[d]]
    /\ pc' = "box"
    /\ UNCHANGED <<dataset, format, pathKind, dirs, err, force,
                   existed_data_size, current_data_index, img, box,
                   pathKind0, dirs0, files0, produced, skipped, orphans,
                   lastRun, runs, deletes>>
    /\ UNCHANGED tvars

\* a filesystem or crop failure: the exception propagates out of generate
Fault ==
    /\ pc \in {"mkdir", "save"}
    /\ pc' = "error"
    /\ err' = "Fault"
    /\ orphans' = IF pc = "save" THEN orphans \cup {current_data_index - 1} ELSE orphans
    /\ UNCHANGED <<dataset, format, pathKind, dirs, files, force,
                   existed_data_size, current_data_index, img, box,
                   pathKind0, dirs0, files0, produced, skipped,
                   lastRun, runs, deletes>>
    /\ UNCHANGED tvars

\* generate has returned or raised: the caller may call it again
Return ==
    /\ pc \in {"done", "error"}
    /\ pc' = "idle"
    /\ lastRun' = IF pc = "done" /\ ~force THEN "clean" ELSE "other"
    /\ UNCHANGED <<dataset, format, pathKind, dirs, files, err, force,
                   existed_data_size, current_data_index, img, box,
                   pathKind0, dirs0, files0, produced, skipped, orphans,
                   runs, deletes>>
    /\ UNCHANGED tvars

\* between two calls somebody deletes one instance directory
DeleteDir(d) ==
    /\ pc = "idle"
    /\ deletes < MaxDeletes
    /\ d \in dirs
    /\ dirs' = dirs \ {d}
    /\ files' = [x \in (DOMAIN files) \ {d} |-> files[x]]
    /\ orphans' = orphans \ {d}
    /\ deletes' = deletes + 1
    /\ lastRun' = "other"
    /\ UNCHANGED <<dataset, format, pathKind, pc, err, force,
                   existed_data_size, current_data_index, img, box,
                   pathKind0, dirs0, files0, produced, skipped, runs>>
    /\ UNCHANGED tvars

\* ------------------------------------------------------------- trainer
Losses == 0..MaxLoss

\* the ComparatorDataloader contract: iterating a loader whose len() is n yields n batches
BatchesOf(n) == n

\* line 88: log_interval = int(data_size / 100)
LogInterval(n) == n \div LogDivisor

\* a slip: the `and i > 0` dropped
ShouldLogAtZero(idx, interval) == idx % interval = 0

\* line 108: if i % log_interval == 0 and i > 0 (the modulus is evaluated first)
ShouldLog(idx, interval) == idx % interval = 0 /\ idx > 0

\* the Trainer as constructed, no method called yet
TrainerNew ==
    /\ params = 0
    /\ grads = "none"
    /\ mode = "train"
    /\ grad_enabled = TRUE
    /\ train_shuffles = 0
    /\ val_shuffles = 0
    /\ tpc = "idle"
    /\ terr = "none"
    /\ total_loss = 0
    /\ start_time = 0
    /\ now = 0
    /\ log_interval = 0
    /\ i = 0
    /\ ret = <<>>
    /\ emitted = <<>>
    /\ logged = {}
    /\ window = 0
    /\ seen = <<>>
    /\ params0 = 0
    /\ grads0 = "none"
    /\ steps = 0
    /\ fwd_tracked = 0
    /\ op = "none"
    /\ calls = 0

\* lines 80-90: __train up to the loop
StartTrain ==
    /\ tpc = "idle"
    /\ calls < MaxCalls
    /\ calls' = calls + 1
    /\ op' = "train"
    /\ train_shuffles' = train_shuffles + 1
    /\ mode' = "train"
    /\ total_loss' = 0
    /\ now' = 0
    /\ start_time' = 0
    /\ log_interval' = LogInterval(data_size)
    /\ i' = 0
    /\ tpc' = "train"
    /\ terr' = "none"
    /\ ret' = <<>>
    /\ emitted' = <<>>
    /\ logged' = {}
    /\ window' = 0
    /\ seen' = <<>>
    /\ params0' = params
    /\ grads0' = grads
    /\ steps' = 0
    /\ fwd_tracked' = 0
    /\ UNCHANGED <<data_size, val_size, params, grads, grad_enabled, val_shuffles>>
    /\ UNCHANGED gvars

\* lines 91-123: one pass of the loop body, for batch index i with the given loss
TrainBatch(loss) ==
    /\ tpc = "train"
    /\ i < BatchesOf(data_size)
    /\ grads' = "set"
    /\ steps' = steps + 1
    /\ fwd_tracked' = IF grad_enabled THEN fwd_tracked + 1 ELSE fwd_tracked
    /\ params' = params + 1
    /\ now' = now + 1
    /\ IF log_interval = 0
       THEN \* i % 0
            /\ tpc' = "error"
            /\ terr' = "ZeroDivisionError"
            /\ total_loss' = total_loss + loss
            /\ window' = window + 1
            /\ UNCHANGED <<i, start_time, emitted, logged>>
       ELSE /\ i' = i + 1
            /\ UNCHANGED <<tpc, terr>>
            /\ IF ShouldLog(i, log_interval)
               THEN /\ emitted' = << [index |-> i,
                                      batches |-> data_size,
                                      cur_loss |-> <<total_loss + loss, log_interval>>,
                                      ms_per_batch |-> <<(now' - start_time) * 1000, log_interval>>,
                                      window |-> window + 1] >>
                    /\ logged' = logged \cup {i}
                    /\ start_time' = now'
                    /\ total_loss' = 0
                    /\ window' = 0
               ELSE /\ emitted' = <<>>
                    /\ total_loss' = total_loss + loss
                    /\ window' = window + 1
                    /\ UNCHANGED <<logged, start_time>>
    /\ UNCHANGED <<data_size, val_size, mode, grad_enabled, train_shuffles,
                   val_shuffles, log_interval, ret, seen, params0, grads0, op, calls>>
    /\ UNCHANGED gvars

\* line 91: the loader is exhausted, __train returns None
TrainReturn ==
    /\ tpc = "train"
    /\ i = BatchesOf(data_size)
    /\ tpc' = "done"
    /\ UNCHANGED <<data_size, val_size, params, grads, mode, grad_enabled,
                   train_shuffles, val_shuffles, terr, total_loss, start_time,
                   now, log_interval, i, ret, emitted, logged, window, seen,
                   params0, grads0, steps, fwd_tracked, op, calls>>
    /\ UNCHANGED gvars

\* lines 60-66: __evaluate up to the loop, inside torch.no_grad()
StartEvaluate ==
    /\ tpc = "idle"
    /\ calls < MaxCalls
    /\ calls' = calls + 1
    /\ op' = "evaluate"
    /\ val_shuffles' = val_shuffles + 1
    /\ mode' = "eval"
    /\ total_loss' = 0
    /\ grad_enabled' = FALSE
    /\ i' = 0
    /\ tpc' = "evaluate"
    /\ terr' = "none"
    /\ ret' = <<>>
    /\ emitted' = <<>>
    /\ logged' = {}
    /\ window' = 0
    /\ seen' = <<>>
    /\ params0' = params
    /\ grads0' = grads
    /\ steps' = 0
    /\ fwd_tracked' = 0
    /\ now' = 0
    /\ start_time' = 0
    /\ log_interval' = 0
    /\ UNCHANGED <<data_size, val_size, params, grads, train_shuffles>>
    /\ UNCHANGED gvars

\* a slip: the validation batch treated as a training batch (backward and step)
EvalBatchTraining(loss) ==
    /\ tpc = "evaluate"
    /\ i < BatchesOf(val_size)
    /\ i' = i + 1
    /\ fwd_tracked' = IF grad_enabled THEN fwd_tracked + 1 ELSE fwd_tracked
    /\ total_loss' = total_loss + loss
    /\ seen' = Append(seen, loss)
    /\ grads' = "set"
    /\ steps' = steps + 1
    /\ params' = params + 1
    /\ UNCHANGED <<data_size, val_size, mode, grad_enabled,
                   train_shuffles, val_shuffles, tpc, terr, start_time, now,
                   log_interval, ret, emitted, logged, window,
                   params0, grads0, op, calls>>
    /\ UNCHANGED gvars

\* lines 67-76: one validation batch with the given loss
EvalBatch(loss) ==
    /\ tpc = "evaluate"
    /\ i < BatchesOf(val_size)
    /\ i' = i + 1
    /\ fwd_tracked' = IF grad_enabled THEN fwd_tracked + 1 ELSE fwd_tracked
    /\ total_loss' = total_loss + loss
    /\ seen' = Append(seen, loss)
    /\ UNCHANGED <<data_size, val_size, params, grads, mode, grad_enabled,
                   train_shuffles, val_shuffles, tpc, terr, start_time, now,
                   log_interval, ret, emitted, logged, window,
                   params0, grads0, steps, op, calls>>
    /\ UNCHANGED gvars

\* lines 66, 78: leave torch.no_grad(), return total_loss / len(self.__val_data_loader)
EvalReturn ==
    /\ tpc = "evaluate"
    /\ i = BatchesOf(val_size)
    /\ grad_enabled' = TRUE
    /\ IF val_size = 0
       THEN /\ tpc' = "error"
            /\ terr' = "ZeroDivisionError"
            /\ UNCHANGED ret
       ELSE /\ tpc' = "done"
            /\ ret' = <<total_loss, val_size>>
            /\ UNCHANGED terr
    /\ UNCHANGED <<data_size, val_size, params, grads, mode,
                   train_shuffles, val_shuffles, total_loss, start_time, now,
                   log_interval, i, emitted, logged, window, seen,
                   params0, grads0, steps, fwd_tracked, op, calls>>
    /\ UNCHANGED gvars

\* the call has returned or raised: the caller may call a method again
Resume ==
    /\ tpc \in {"done", "error"}
    /\ tpc' = "idle"
    /\ UNCHANGED <<data_size, val_size, params, grads, mode, grad_enabled,
                   train_shuffles, val_shuffles, terr, total_loss, start_time,
                   now, log_interval, i, ret, emitted, logged, window, seen,
                   params0, grads0, steps, fwd_tracked, op, calls>>
    /\ UNCHANGED gvars

\* a generator that is never run, for the trainer's specification
GenUnused ==
    /\ dataset = <<>>
    /\ format = "jpg"
    /\ pathKind = "absent"
    /\ dirs = {}
    /\ files = <<>>
    /\ pc = "idle"
    /\ err = "none"
    /\ force = FALSE
    /\ existed_data_size = 0
    /\ current_data_index = 0
    /\ img = 0
    /\ box = 0
    /\ pathKind0 = "absent"
    /\ dirs0 = {}
    /\ files0 = <<>>
    /\ produced = {}
    /\ skipped = {}
    /\ orphans = {}
    /\ lastRun = "none"
    /\ runs = 0
    /\ deletes = 0

\* a trainer that is never run, for the generator's specification
TrainerUnused ==
    /\ data_size = 0
    /\ val_size = 0
    /\ TrainerNew

Init ==
    /\ GenInit
    /\ TrainerUnused

TrainInit ==
    /\ GenUnused
    /\ data_size \in 0..MaxDataSize
    /\ val_size \in 0..MaxVal
    /\ TrainerNew

TrainNext ==
    \/ StartTrain
    \/ \E loss \in Losses : TrainBatch(loss)
    \/ TrainReturn
    \/ StartEvaluate
    \/ \E loss \in Losses : EvalBatch(loss)
    \/ EvalReturn
    \/ Resume

TrainSpec == TrainInit /\ [][TrainNext]_vars


Next ==
    \/ \E f \in BOOLEAN : Generate(f)
    \/ NextImage
    \/ NextBox
    \/ MkDir
    \/ Save
    \/ Fault
    \/ Return
    \/ \E d \in dirs : DeleteDir(d)

Spec == Init /\ [][Next]_vars

\* ------------------------------------------------------------ vocabulary
\* the number of boxes of the dataset
TotalBoxes == SumSeq(dataset)

\* the boxes <<image, box>> of the dataset in iteration order, images from `im` on
RECURSIVE IterationOrder(_, _)
IterationOrder(ds, im) ==
    IF im > Len(ds) THEN <<>>
    ELSE [k \in 1..ds[im] |-> <<im, k>>] \o IterationOrder(ds, im + 1)

\* the number of instance directories present when the call started
Existing0 == Cardinality(dirs0)

\* the directories present at the start are exactly the indices 0..m-1
PrefixAtStart == dirs0 = 0..(Existing0 - 1)

\* directory d is as it was when the call started
Untouched(d) ==
    /\ d \in dirs
    /\ (d \in DOMAIN files) = (d \in DOMAIN files0)
    /\ d \in DOMAIN files0 => files[d] = files0[d]

\* a directory without its image file
EmptyDirs == dirs \ DOMAIN files

\* ----------------------------------------------------------------- C1
\* C1: a generate(force=False) call that follows a completed generate(force=False)
\* call on the same dataset creates no directory, writes no file and raises no
\* error: the tree stays what the first call left, every box being skipped.
C1_Idempotent ==
    (lastRun = "clean" /\ pc # "idle" /\ ~force) =>
        /\ pathKind = "dir"
        /\ dirs = dirs0
        /\ files = files0
        /\ produced = {}
        /\ pc \notin {"mkdir", "save", "error"}
        /\ dirs = 0..(TotalBoxes - 1)
        /\ pc = "done" => skipped = 0..(TotalBoxes - 1)

C1_Witness ==
    /\ lastRun = "clean"
    /\ ~force
    /\ pc = "done"
    /\ dataset = <<2, 0, 1>>
    /\ skipped = {0, 1, 2}

\* ----------------------------------------------------------------- C2
\* C2: a generate(force=False) call that starts with exactly the directories
\* 0..m-1 (m <= N) skips the first m boxes and then produces every remaining one:
\* it creates exactly m..N-1, each with one file 0.<format>, leaves 0..m-1 as they
\* were, never fails on an existing directory, and skips no box after producing one.
C2_Resume ==
    (~force /\ pc # "idle" /\ pathKind0 # "file" /\ PrefixAtStart) =>
        /\ skipped \subseteq 0..(Existing0 - 1)
        /\ produced \subseteq Existing0..(TotalBoxes - 1)
        /\ \A sk \in skipped : \A pr \in produced : sk < pr
        /\ produced # {} => skipped = 0..(Existing0 - 1)
        /\ \A d \in dirs0 : Untouched(d)
        /\ dirs = dirs0 \cup produced
        /\ ~(pc = "error" /\ err = "FileExistsError")
        /\ pc = "done" =>
              /\ skipped = 0..(Existing0 - 1)
              /\ produced = Existing0..(TotalBoxes - 1)
              /\ \A d \in produced :
                    d \in DOMAIN files /\ files[d].name = <<0, format>>

C2_Witness ==
    /\ ~force
    /\ pc = "done"
    /\ deletes = 1
    /\ dirs0 = {0, 1}
    /\ skipped = {0, 1}
    /\ produced = {2}
    /\ 2 \in DOMAIN files

\* ----------------------------------------------------------------- C3
\* C3: a call that starts with no instance directory and completes leaves exactly
\* the directories 0..N-1, the j-th box in iteration order saved as <j-1>/0.<format>;
\* an image without boxes leaves no gap.
C3_FreshLayout ==
    (pc = "done" /\ dirs0 = {}) =>
        /\ dirs = 0..(TotalBoxes - 1)
        /\ DOMAIN files = dirs
        /\ \A j \in 1..TotalBoxes :
              files[j - 1] = [name |-> <<0, format>>,
                              crop |-> IterationOrder(dataset, 1)[j]]

C3_Witness ==
    /\ pc = "done"
    /\ dirs0 = {}
    /\ dataset = <<2, 0, 1>>
    /\ dirs = {0, 1, 2}
    /\ files[2].crop = <<3, 1>>

\* ----------------------------------------------------------------- C4
\* C4: generate(force=True) on a target directory that exists deletes it and
\* regenerates every box from index 0: no error, existed_data_size = 0, and the
\* directories at the end are exactly 0..N-1.
C4_ForceRegenerates ==
    (force /\ pathKind0 = "dir" /\ pc # "idle" /\ err # "Fault") =>
        /\ pc # "error"
        /\ existed_data_size = 0
        /\ pc = "done" => dirs = 0..(TotalBoxes - 1)

C10_AbortsUnchanged ==
    (~force /\ pc # "idle" /\ pathKind0 = "dir" /\ ~PrefixAtStart /\ err # "Fault") =>
        /\ pc # "done"
        /\ dirs = dirs0
        /\ files = files0

\* C10 as amended: a call never writes into a directory that existed when it
\* started; a box whose directory exists fails at mkdir. If index m (the number of
\* existing directories) is present, the call aborts with the filesystem unchanged;
\* otherwise it first creates m, m+1, ... up to the first existing index.
C10_NeverOverwrites ==
    (~force /\ pc # "idle" /\ pathKind0 = "dir") =>
        /\ \A d \in dirs0 : Untouched(d)
        /\ produced \cap dirs0 = {}
        /\ Existing0 \in dirs0 =>
              /\ dirs = dirs0
              /\ files = files0
              /\ pc \notin {"save", "done"}
        /\ (pc = "error" /\ err = "FileExistsError") =>
              /\ (current_data_index - 1) \in dirs0
              /\ produced = Existing0..(current_data_index - 2)
              /\ \A d \in produced : d \in DOMAIN files

C10_Witness ==
    /\ ~force
    /\ pc = "error"
    /\ err = "FileExistsError"
    /\ dirs0 = {0, 2}
    /\ current_data_index = 3
    /\ dirs = dirs0
    /\ files = files0

\* ----------------------------------------------------------------- C5
\* C5: in __train, for every data_size >= 1, log_interval is at least 1, no
\* division by log_interval faults, and the epoch processes all its batches.
C5_NoDivisionFault ==
    (op = "train" /\ tpc # "idle" /\ data_size >= 1) =>
        /\ log_interval >= 1
        /\ terr # "ZeroDivisionError"
        /\ tpc = "done" => i = data_size

\* ----------------------------------------------------------------- C6
\* C6: in an epoch with log_interval >= 1 a log line is emitted after batch i iff
\* i > 0 and i is a multiple of log_interval (never at batch 0); an emission resets
\* the accumulator and restarts the timer; data_size = 250 gives log_interval 2
\* and log lines at exactly 2, 4, ..., 248.
C6_LogSchedule ==
    (op = "train" /\ tpc \in {"train", "done"} /\ log_interval >= 1) =>
        /\ log_interval * LogDivisor <= data_size
        /\ data_size < (log_interval + 1) * LogDivisor
        /\ logged = {j \in 0..(i - 1) : j > 0 /\ j % log_interval = 0}
        /\ 0 \notin logged
        /\ (Len(emitted) = 1) = ((i - 1) \in logged)
        /\ Len(emitted) = 1 =>
              /\ emitted[1].index = i - 1
              /\ total_loss = 0
              /\ window = 0
              /\ start_time = now
        /\ (tpc = "done" /\ data_size = 250) =>
              /\ log_interval = 2
              /\ logged = {2 * k : k \in 1..124}

C6_Witness ==
    /\ op = "train"
    /\ tpc = "done"
    /\ data_size = 250
    /\ i = 250
    /\ Cardinality(logged) = 124

\* ----------------------------------------------------------------- C7
\* C7: at every log emission, the first included, total_loss is the sum of exactly
\* log_interval batches, so cur_loss = total_loss / log_interval is their mean.
C7_WindowIsInterval ==
    (op = "train" /\ Len(emitted) = 1) =>
        /\ emitted[1].cur_loss[2] = log_interval
        /\ emitted[1].window = log_interval

\* ----------------------------------------------------------------- C8
\* C8: __evaluate leaves parameters, gradients and optimizer untouched: the model
\* is in evaluation mode, every forward pass runs with gradient tracking off, there
\* is no zero_grad, backward or step, and the value returned is the sum of the
\* per-batch losses over the number of validation batches.
C8_EvaluateFrame ==
    (op = "evaluate" /\ tpc # "idle") =>
        /\ params = params0
        /\ grads = grads0
        /\ steps = 0
        /\ fwd_tracked = 0
        /\ mode = "eval"
        /\ tpc = "evaluate" => ~grad_enabled
        /\ total_loss = SumSeq(seen)
        /\ Len(seen) = i
        /\ tpc = "done" =>
              /\ Len(seen) = val_size
              /\ ret = <<SumSeq(seen), val_size>>
        /\ tpc = "error" => (val_size = 0 /\ terr = "ZeroDivisionError")

C8_Witness ==
    /\ op = "evaluate"
    /\ tpc = "done"
    /\ calls = 2
    /\ params = 250
    /\ val_size = 2
    /\ seen = <<1, 0>>
    /\ ret = <<1, 2>>

====
